---- MODULE Spec2Model ----
(***************************************************************************)
(* Model of power_rankings_gen.py: the weekly power-ranking pipeline of a  *)
(* fantasy league (main and the functions it calls), and the ranking       *)
(* helper rank_data_keyed_by_roster_id.                                    *)
(*                                                                         *)
(* Numbers.  Every metric is carried as an exact rational <<num, den>>     *)
(* with den > 0.  The weights of the source (1.2, 1.5, 0.5, ...) are       *)
(* carried in tenths.  The consistency of a roster (standard deviation     *)
(* over mean) is carried as its square, which is a rational; squaring is   *)
(* strictly increasing on the non-negative values it is applied to, so     *)
(* every comparison of two consistencies and the test for zero are kept.   *)
(***************************************************************************)
EXTENDS Integers, Sequences, FiniteSets, TLC

VARIABLES
    pc,                          \* the next statement of main to run
    error,                       \* the exception that ended the run, "" if none
    LATEST_FINISHED_WEEK,        \* configuration, line 10
    RECENT_WEEKS_COUNT,          \* configuration, line 30
    RECENT_WINS_EARLY_SEASON_WEEK_THRESHOLD, \* configuration, line 29
    ROSTER_TO_TEAM_NAME_MAPPING, \* the keys of the dict, in insertion order
    PER_TEAM_WEEKLY_MATRIX_DATA, \* roster id -> sequence of PerRosterWeeklyData
    weeks_fetched,               \* loop index i of populate_per_roster_data
    FINAL_RESULTS,               \* roster id -> PerRosterCalculatedData
    main_locals,                 \* the rank maps main holds between the stages
    weights_printed,             \* the weights line 255 prints
    csvfile,                     \* the rows written to the report file
    rank_in,                     \* argument to_rank of a direct call of the helper
    rank_out                     \* that call's to_reverse and its result

vars == <<pc, error, LATEST_FINISHED_WEEK, RECENT_WEEKS_COUNT,
          RECENT_WINS_EARLY_SEASON_WEEK_THRESHOLD, ROSTER_TO_TEAM_NAME_MAPPING,
          PER_TEAM_WEEKLY_MATRIX_DATA, weeks_fetched, FINAL_RESULTS, main_locals,
          weights_printed, csvfile, rank_in, rank_out>>

(***************************************************************************)
(* Bounds of the model.                                                    *)
(***************************************************************************)
\* The largest number of completed weeks a run processes.
MaxWeeks == 3

\* The largest number of observations the weekly store holds: a run
\* processes a league of n rosters for at most MaxObservations \div n weeks.
MaxObservations == 7

\* The roster id sets the data provider may return.
Leagues == {{1, 2}, {2, 3}, {1, 2, 3}}

\* The points a roster may score in a week.
PointValues == {0, 1}

\* The matchup ids of a week.  The source only compares the matchup ids of
\* one week for equality, so the entry of the lowest roster id is given
\* matchup id 1.
MatchupIds == {1, 2}

MatchupIdsOfWeek(present) ==
    {m \in [present -> MatchupIds] :
        \A r \in present : (\A o \in present : r <= o) => m[r] = 1}

\* The answers the manual roster-strength prompt may get.
RosAnswers == {1, 2}

\* The settings <<RECENT_WEEKS_COUNT, RECENT_WINS_EARLY_SEASON_WEEK_THRESHOLD>>
\* a run may have: the defaults of the source, and a window and a threshold
\* short enough for the weeks of the model to reach.
RecentSettings == {<<5, 8>>, <<2, 2>>}

\* Direct calls of the ranking helper: ids, values and length of to_rank.
RankIds == {1, 2, 3, 7}

RankValues == 0 .. 2

MaxRankLen == 3

(***************************************************************************)
(* Exact rationals.                                                        *)
(***************************************************************************)
Rat(n) == <<n, 1>>

RatLess(a, b) == a[1] * b[2] < b[1] * a[2]

RatEq(a, b) == a[1] * b[2] = b[1] * a[2]

RECURSIVE SumSeq(_)
SumSeq(s) == IF s = <<>> THEN 0 ELSE Head(s) + SumSeq(Tail(s))

Range(s) == {s[i] : i \in 1 .. Len(s)}

(***************************************************************************)
(* scipy.stats.rankdata(column, method='min'): sort the column, and give   *)
(* every element the 1-based position of the first element of the sorted   *)
(* column equal to it.                                                     *)
(***************************************************************************)
rankdata_min(col) ==
    LET sorted == SortSeq(col, RatLess)
    IN  [i \in 1 .. Len(col) |->
            CHOOSE k \in 1 .. Len(col) :
                /\ RatEq(sorted[k], col[i])
                /\ \A j \in 1 .. k - 1 : ~RatEq(sorted[j], col[i])]

(***************************************************************************)
(* rank_data_keyed_by_roster_id(to_rank, to_reverse), lines 285-298.       *)
(* to_rank is a dict, modelled as the sequence of its items <<id, value>>  *)
(* in iteration order.  rank_matrix has one row [id, +-value] per item;    *)
(* rankdata(..., axis=0) ranks each COLUMN of the matrix on its own, so    *)
(* the first column of ranked_data holds the ranks of the ids, not the     *)
(* ids.  The result is keyed by that first column.                         *)
(***************************************************************************)
rank_data_keyed_by_roster_id(to_rank, to_reverse) ==
    LET n == Len(to_rank)
        reverse_items == IF to_reverse = 0 THEN -1 ELSE 1
        col0 == [i \in 1 .. n |-> Rat(to_rank[i][1])]
        col1 == [i \in 1 .. n |->
                    <<reverse_items * to_rank[i][2][1], to_rank[i][2][2]>>]
        ranked0 == rankdata_min(col0)
        ranked1 == rankdata_min(col1)
    IN  [k \in {ranked0[i] : i \in 1 .. n} |->
            ranked1[CHOOSE i \in 1 .. n :
                        /\ ranked0[i] = k
                        /\ \A j \in i + 1 .. n : ranked0[j] # k]]

(***************************************************************************)
(* Dicts keyed by roster id are functions; a dict whose iteration order    *)
(* matters is the sequence of its items.                                   *)
(***************************************************************************)
EmptyDict == [k \in {} |-> 0]

Items(keys, dict) == [i \in 1 .. Len(keys) |-> <<keys[i], dict[keys[i]]>>]

\* The ids of a league in the order the data provider lists them.
RECURSIVE Ascending(_)
Ascending(S) ==
    IF S = {} THEN <<>>
    ELSE LET m == CHOOSE x \in S : \A y \in S : x <= y
         IN  <<m>> \o Ascending(S \ {m})

\* sorted(d.items(), key=lambda item: item[1]): stable, ascending by value.
RECURSIVE sorted_by_value(_)
sorted_by_value(items) ==
    IF items = <<>> THEN <<>>
    ELSE LET rest == sorted_by_value(Tail(items))
             h == Head(items)
             before == SelectSeq(rest, LAMBDA it : RatLess(it[2], h[2]))
             after == SelectSeq(rest, LAMBDA it : ~RatLess(it[2], h[2]))
         IN  before \o <<h>> \o after

\* Index of the first key of keys that is not in S, 0 if all are.
FirstMissing(keys, S) ==
    IF \A i \in 1 .. Len(keys) : keys[i] \in S THEN 0
    ELSE CHOOSE i \in 1 .. Len(keys) :
            /\ keys[i] \notin S
            /\ \A j \in 1 .. i - 1 : keys[j] \in S

NoError == [stage |-> "", exception |-> ""]

Raise(stage, exception) ==
    /\ pc' = "aborted"
    /\ error' = [stage |-> stage, exception |-> exception]

(***************************************************************************)
(* Weights, lines 21-38, in tenths.                                        *)
(***************************************************************************)
WIN_WEIGHT_EARLY_SEASON == 12 * LATEST_FINISHED_WEEK

WIN_WEIGHT == 30

WIN_EARLY_SEASON_WEEK_THRESHOLD == 3

OVERALL_WIN_WEIGHT == 20

RECENT_WINS_WEIGHT_EARLY_SEASON == 0

RECENT_WINS_WEIGHT == 15

CONSISTENCY_WEIGHT_EARLY_SEASON == 0

CONSISTENCY_WEIGHT == 5

CONSISTENCY_EARLY_SEASON_WEEK_THRESHOLD == 3

POINTS_SCORED_WEIGHT == 10

ROSTER_STRENGTH_WEIGHT == 15

(***************************************************************************)
(* The state when main is entered: the module-level dicts are empty and    *)
(* the configuration is whatever the user set it to.                       *)
(***************************************************************************)
NoRankCall == [called |-> FALSE, to_reverse |-> 0, result |-> EmptyDict]

Init ==
    /\ pc = "populate_roster_to_team_name_mapping"
    /\ error = NoError
    /\ LATEST_FINISHED_WEEK \in 1 .. MaxWeeks
    /\ \E setting \in RecentSettings :
          /\ RECENT_WEEKS_COUNT = setting[1]
          /\ RECENT_WINS_EARLY_SEASON_WEEK_THRESHOLD = setting[2]
    /\ ROSTER_TO_TEAM_NAME_MAPPING = <<>>
    /\ PER_TEAM_WEEKLY_MATRIX_DATA = EmptyDict
    /\ weeks_fetched = 0
    /\ FINAL_RESULTS = EmptyDict
    /\ main_locals = EmptyDict
    /\ weights_printed = EmptyDict
    /\ csvfile = <<>>
    /\ rank_in = <<>>
    /\ rank_out = NoRankCall

config == <<LATEST_FINISHED_WEEK, RECENT_WEEKS_COUNT,
            RECENT_WINS_EARLY_SEASON_WEEK_THRESHOLD>>

helper == <<rank_in, rank_out>>

(***************************************************************************)
(* populate_roster_to_team_name_mapping, lines 90-103.                     *)
(***************************************************************************)
populate_roster_to_team_name_mapping ==
    /\ pc = "populate_roster_to_team_name_mapping"
    /\ \E league \in Leagues :
          /\ Cardinality(league) * LATEST_FINISHED_WEEK <= MaxObservations
          /\ ROSTER_TO_TEAM_NAME_MAPPING' = Ascending(league)
    /\ pc' = "populate_per_roster_data"
    /\ UNCHANGED <<error, config, PER_TEAM_WEEKLY_MATRIX_DATA, weeks_fetched,
                   FINAL_RESULTS, main_locals, weights_printed, csvfile, helper>>

\* requests.get or .json() raises on line 94 or 98.
populate_roster_to_team_name_mapping_fails ==
    /\ pc = "populate_roster_to_team_name_mapping"
    /\ Raise("populate_roster_to_team_name_mapping", "RequestException")
    /\ UNCHANGED <<config, ROSTER_TO_TEAM_NAME_MAPPING,
                   PER_TEAM_WEEKLY_MATRIX_DATA, weeks_fetched, FINAL_RESULTS,
                   main_locals, weights_printed, csvfile, helper>>

(***************************************************************************)
(* populate_per_roster_data, lines 107-115: one iteration of the loop over *)
(* the weeks.  matchups_for_week holds one entry for each roster of        *)
(* present; the field week of an observation is not in the source, it      *)
(* records the week the observation was fetched for.                       *)
(***************************************************************************)
append_week(store, present, points, matchup_id, week) ==
    [r \in DOMAIN store \cup present |->
        IF r \in present
        THEN LET roster_data == [points_scored |-> points[r],
                                 matchup_id |-> matchup_id[r],
                                 week |-> week]
             IN  IF r \in DOMAIN store THEN Append(store[r], roster_data)
                 ELSE <<roster_data>>
        ELSE store[r]]

\* Line 108 with range(0, LATEST_FINISHED_WEEK - 1).
pc_after_week_short(weeks) ==
    IF weeks >= LATEST_FINISHED_WEEK - 1
    THEN "calculate_points_per_game_and_consistency_rankings"
    ELSE "populate_per_roster_data"

\* Line 108: the loop runs for i = 0 .. LATEST_FINISHED_WEEK - 1, and main
\* goes on to line 79 when it ends; weeks is the number of weeks fetched.
pc_after_week(weeks) ==
    IF weeks = LATEST_FINISHED_WEEK
    THEN "calculate_points_per_game_and_consistency_rankings"
    ELSE "populate_per_roster_data"

populate_per_roster_data ==
    /\ pc = "populate_per_roster_data"
    /\ weeks_fetched < LATEST_FINISHED_WEEK
    /\ \E present \in SUBSET Range(ROSTER_TO_TEAM_NAME_MAPPING) :
       \E points \in [present -> PointValues] :
       \E matchup_id \in MatchupIdsOfWeek(present) :
          PER_TEAM_WEEKLY_MATRIX_DATA' =
              append_week(PER_TEAM_WEEKLY_MATRIX_DATA, present, points,
                          matchup_id, weeks_fetched + 1)
    /\ weeks_fetched' = weeks_fetched + 1
    /\ pc' = pc_after_week(weeks_fetched + 1)
    /\ UNCHANGED <<error, config, ROSTER_TO_TEAM_NAME_MAPPING, FINAL_RESULTS,
                   main_locals, weights_printed, csvfile, helper>>

\* requests.get or .json() raises on line 109.
populate_per_roster_data_fails ==
    /\ pc = "populate_per_roster_data"
    /\ weeks_fetched < LATEST_FINISHED_WEEK
    /\ Raise("populate_per_roster_data", "RequestException")
    /\ UNCHANGED <<config, ROSTER_TO_TEAM_NAME_MAPPING,
                   PER_TEAM_WEEKLY_MATRIX_DATA, weeks_fetched, FINAL_RESULTS,
                   main_locals, weights_printed, csvfile, helper>>

(***************************************************************************)
(* calculate_points_per_game_and_consistency_rankings, lines 179-220.      *)
(***************************************************************************)
points_scored_per_week(r) ==
    IF r \in DOMAIN PER_TEAM_WEEKLY_MATRIX_DATA
    THEN [i \in 1 .. LATEST_FINISHED_WEEK |->
             PER_TEAM_WEEKLY_MATRIX_DATA[r][i].points_scored]
    ELSE <<>>

\* statistics.mean
mean(data) == <<SumSeq(data), Len(data)>>

\* The square of statistics.stdev(data) / statistics.mean(data), for data
\* of two or more values whose sum is not 0:
\* n * (n * sum(x^2) - sum(x)^2) / ((n - 1) * sum(x)^2).
stdev_over_mean_squared(data) ==
    LET n == Len(data)
        s == SumSeq(data)
        q == SumSeq([i \in 1 .. n |-> data[i] * data[i]])
    IN  <<n * (n * q - s * s), (n - 1) * s * s>>

\* Lines 197-200 with the test "two or more weeks", the least statistics.stdev
\* accepts, for the threshold.
consistency_of_two_weeks(data) ==
    IF LATEST_FINISHED_WEEK >= 2
    THEN stdev_over_mean_squared(data)
    ELSE Rat(0)

\* Lines 197-200 and 206: the consistency of a roster whose mean is not 0.
consistency_of(data) ==
    IF LATEST_FINISHED_WEEK >= CONSISTENCY_EARLY_SEASON_WEEK_THRESHOLD
    THEN stdev_over_mean_squared(data)
    ELSE Rat(0)

\* Lines 210-218: the loop that writes the results, up to the first roster
\* the rank maps have no key for (KeyError on line 216).
write_points_results(results, keys, ppg, ranked_ppg, cons, ranked_cons) ==
    LET k == FirstMissing(keys, DOMAIN ranked_ppg)
        written == {keys[i] : i \in 1 .. (IF k = 0 THEN Len(keys) ELSE k)}
        old(r) == IF r \in DOMAIN results THEN results[r] ELSE EmptyDict
    IN  [r \in DOMAIN results \cup written |->
            IF r \notin written THEN results[r]
            ELSE IF k # 0 /\ r = keys[k]
            THEN ("points_per_game" :> ppg[r]) @@ old(r)
            ELSE [points_per_game |-> ppg[r],
                  points_per_game_rankings |-> ranked_ppg[r],
                  consistency |-> cons[r],
                  consistency_rankings |-> ranked_cons[r]] @@ old(r)]

calculate_points_per_game_and_consistency_rankings ==
    /\ pc = "calculate_points_per_game_and_consistency_rankings"
    /\ LET stage == "calculate_points_per_game_and_consistency_rankings"
           keys == ROSTER_TO_TEAM_NAME_MAPPING
           rosters == Range(keys)
           store == PER_TEAM_WEEKLY_MATRIX_DATA
           ppg == [r \in rosters |-> mean(points_scored_per_week(r))]
           cons == [r \in rosters |-> consistency_of(points_scored_per_week(r))]
           ranked_ppg == rank_data_keyed_by_roster_id(Items(keys, ppg), 0)
           ranked_cons == rank_data_keyed_by_roster_id(Items(keys, cons), 1)
       IN  IF \E r \in DOMAIN store : Len(store[r]) < LATEST_FINISHED_WEEK
           THEN \* line 186: roster_data[i] of a roster with fewer weeks
                /\ Raise(stage, "IndexError")
                /\ UNCHANGED <<FINAL_RESULTS, main_locals>>
           ELSE IF \E r \in rosters : r \notin DOMAIN store
           THEN \* line 192: the mean of no data
                /\ Raise(stage, "StatisticsError")
                /\ UNCHANGED <<FINAL_RESULTS, main_locals>>
           ELSE IF \E r \in rosters : ppg[r][1] = 0
           THEN \* line 206
                /\ Raise(stage, "ZeroDivisionError")
                /\ UNCHANGED <<FINAL_RESULTS, main_locals>>
           ELSE /\ FINAL_RESULTS' = write_points_results(FINAL_RESULTS, keys,
                                        ppg, ranked_ppg, cons, ranked_cons)
                /\ IF FirstMissing(keys, DOMAIN ranked_ppg) # 0
                   THEN \* line 216
                        /\ Raise(stage, "KeyError")
                        /\ UNCHANGED main_locals
                   ELSE /\ pc' = "calculate_wins_and_overall_wins_and_recent_wins_rankings"
                        /\ main_locals' =
                             [points_per_game_rankings |-> ranked_ppg,
                              consistency_rankings |-> ranked_cons]
                        /\ UNCHANGED error
    /\ UNCHANGED <<config, ROSTER_TO_TEAM_NAME_MAPPING,
                   PER_TEAM_WEEKLY_MATRIX_DATA, weeks_fetched, weights_printed,
                   csvfile, helper>>

(***************************************************************************)
(* calculate_wins_and_overall_wins_and_recent_wins_rankings, lines         *)
(* 127-172.  Week index i is 0-based as in the source; observation i of a  *)
(* roster is element i + 1 of its sequence.                                *)
(***************************************************************************)
beats(roster_data, other_roster_data, i) ==
    IF roster_data[i + 1].points_scored > other_roster_data[i + 1].points_scored
    THEN 1 ELSE 0

same_matchup(store, roster_id, i) ==
    Ascending({o \in DOMAIN store \ {roster_id} :
        store[roster_id][i + 1].matchup_id = store[o][i + 1].matchup_id})

\* Lines 147-148, summed over the other rosters, for week index i.
wins_in_week(store, roster_id, i) ==
    SumSeq([k \in 1 .. Len(same_matchup(store, roster_id, i)) |->
        beats(store[roster_id], store[same_matchup(store, roster_id, i)[k]], i)])

\* Line 144 moved under an else of the test of line 147: only the rosters
\* of another matchup are counted.
overall_wins_in_week_else(store, roster_id, i) ==
    SumSeq([k \in 1 .. Len(Ascending(DOMAIN store \ {roster_id})) |->
        beats(store[roster_id],
              store[Ascending(DOMAIN store \ {roster_id})[k]], i)])
        - wins_in_week(store, roster_id, i)

\* Line 144, summed over the other rosters, for week index i.
overall_wins_in_week(store, roster_id, i) ==
    SumSeq([k \in 1 .. Len(Ascending(DOMAIN store \ {roster_id})) |->
        beats(store[roster_id],
              store[Ascending(DOMAIN store \ {roster_id})[k]], i)])

\* Line 149 with > for >=.
in_recent_window_strict(i, recent_week_threshold) ==
    i > recent_week_threshold /\ recent_week_threshold >= 0

\* Line 149.
in_recent_window(i, recent_week_threshold) ==
    i >= recent_week_threshold /\ recent_week_threshold >= 0

\* Lines 149-150, summed over the other rosters, for week index i.
recent_wins_in_week(store, roster_id, i, recent_week_threshold) ==
    IF in_recent_window(i, recent_week_threshold)
    THEN wins_in_week(store, roster_id, i)
    ELSE 0

\* Lines 160-170.
write_wins_results(results, keys, counts, ranked) ==
    [r \in DOMAIN results \cup Range(keys) |->
        IF r \notin Range(keys) THEN results[r]
        ELSE [wins |-> counts.wins[r],
              wins_rankings |-> ranked.wins[r],
              overall_wins |-> counts.overall_wins[r],
              overall_wins_rankings |-> ranked.overall_wins[r],
              recent_wins |-> counts.recent_wins[r],
              recent_wins_rankings |-> ranked.recent_wins[r]]
             @@ (IF r \in DOMAIN results THEN results[r] ELSE EmptyDict)]

calculate_wins_and_overall_wins_and_recent_wins_rankings ==
    /\ pc = "calculate_wins_and_overall_wins_and_recent_wins_rankings"
    /\ LET keys == ROSTER_TO_TEAM_NAME_MAPPING
           rosters == Range(keys)
           store == PER_TEAM_WEEKLY_MATRIX_DATA
           weeks == [w \in 1 .. LATEST_FINISHED_WEEK |-> w - 1]
           recent_week_threshold == LATEST_FINISHED_WEEK - RECENT_WEEKS_COUNT
           overall_wins == [r \in rosters |->
               SumSeq([w \in DOMAIN weeks |->
                   overall_wins_in_week(store, r, weeks[w])])]
           wins == [r \in rosters |->
               SumSeq([w \in DOMAIN weeks |-> wins_in_week(store, r, weeks[w])])]
           recent_wins == [r \in rosters |->
               SumSeq([w \in DOMAIN weeks |->
                   recent_wins_in_week(store, r, weeks[w],
                                       recent_week_threshold)])]
           as_items(d) == sorted_by_value(Items(keys, [r \in rosters |-> Rat(d[r])]))
           ranked_wins == rank_data_keyed_by_roster_id(as_items(wins), 0)
           ranked_overall_wins ==
               rank_data_keyed_by_roster_id(as_items(overall_wins), 0)
           ranked_recent_wins ==
               rank_data_keyed_by_roster_id(as_items(recent_wins), 0)
       IN  /\ FINAL_RESULTS' = write_wins_results(FINAL_RESULTS, keys,
                  [wins |-> wins, overall_wins |-> overall_wins,
                   recent_wins |-> recent_wins],
                  [wins |-> ranked_wins, overall_wins |-> ranked_overall_wins,
                   recent_wins |-> ranked_recent_wins])
           /\ main_locals' = [wins_rankings |-> ranked_wins,
                              overall_wins_rankings |-> ranked_overall_wins,
                              recent_wins_rankings |-> ranked_recent_wins]
                             @@ main_locals
    /\ pc' = "get_ros_rankings"
    /\ UNCHANGED <<error, config, ROSTER_TO_TEAM_NAME_MAPPING,
                   PER_TEAM_WEEKLY_MATRIX_DATA, weeks_fetched, weights_printed,
                   csvfile, helper>>

(***************************************************************************)
(* get_ros_rankings, lines 224-236: one answer of the prompt per roster.   *)
(***************************************************************************)
get_ros_rankings ==
    /\ pc = "get_ros_rankings"
    /\ \E ros_rankings \in [Range(ROSTER_TO_TEAM_NAME_MAPPING) -> RosAnswers] :
          /\ FINAL_RESULTS' =
                [r \in DOMAIN FINAL_RESULTS \cup DOMAIN ros_rankings |->
                    IF r \notin DOMAIN ros_rankings THEN FINAL_RESULTS[r]
                    ELSE ("ros_rankings" :> ros_rankings[r])
                         @@ (IF r \in DOMAIN FINAL_RESULTS
                             THEN FINAL_RESULTS[r] ELSE EmptyDict)]
          /\ main_locals' = ("ros_rankings" :> ros_rankings) @@ main_locals
    /\ pc' = "calculate_power_rankings_per_team"
    /\ UNCHANGED <<error, config, ROSTER_TO_TEAM_NAME_MAPPING,
                   PER_TEAM_WEEKLY_MATRIX_DATA, weeks_fetched, weights_printed,
                   csvfile, helper>>

\* int(input(...)) raises on line 227: an answer that is no integer.
get_ros_rankings_fails ==
    /\ pc = "get_ros_rankings"
    /\ Raise("get_ros_rankings", "ValueError")
    /\ UNCHANGED <<config, ROSTER_TO_TEAM_NAME_MAPPING,
                   PER_TEAM_WEEKLY_MATRIX_DATA, weeks_fetched, FINAL_RESULTS,
                   main_locals, weights_printed, csvfile, helper>>

(***************************************************************************)
(* calculate_power_rankings_per_team, lines 248-270.                       *)
(***************************************************************************)
\* Line 251 with > for >=.
WIN_WEIGHT_TO_USE_strict ==
    IF LATEST_FINISHED_WEEK > WIN_EARLY_SEASON_WEEK_THRESHOLD
    THEN WIN_WEIGHT ELSE WIN_WEIGHT_EARLY_SEASON

\* Lines 251-253.
WIN_WEIGHT_TO_USE ==
    IF LATEST_FINISHED_WEEK >= WIN_EARLY_SEASON_WEEK_THRESHOLD
    THEN WIN_WEIGHT ELSE WIN_WEIGHT_EARLY_SEASON

RECENT_WINS_TO_USE ==
    IF LATEST_FINISHED_WEEK >= RECENT_WINS_EARLY_SEASON_WEEK_THRESHOLD
    THEN RECENT_WINS_WEIGHT ELSE RECENT_WINS_WEIGHT_EARLY_SEASON

CONSISTENCY_TO_USE ==
    IF LATEST_FINISHED_WEEK >= CONSISTENCY_EARLY_SEASON_WEEK_THRESHOLD
    THEN CONSISTENCY_WEIGHT ELSE CONSISTENCY_WEIGHT_EARLY_SEASON

\* Line 258, in tenths.
power_num(l, roster_id) ==
      l.wins_rankings[roster_id] * WIN_WEIGHT_TO_USE
    + l.overall_wins_rankings[roster_id] * OVERALL_WIN_WEIGHT
    + l.recent_wins_rankings[roster_id] * RECENT_WINS_TO_USE
    + l.points_per_game_rankings[roster_id] * POINTS_SCORED_WEIGHT
    + l.consistency_rankings[roster_id] * CONSISTENCY_TO_USE
    + l.ros_rankings[roster_id] * ROSTER_STRENGTH_WEIGHT

\* Line 259 with the win weight the numerator uses.
power_den_phase ==
    WIN_WEIGHT_TO_USE + OVERALL_WIN_WEIGHT + POINTS_SCORED_WEIGHT
        + ROSTER_STRENGTH_WEIGHT

\* Line 259, in tenths.
power_den ==
    WIN_WEIGHT_EARLY_SEASON + OVERALL_WIN_WEIGHT + POINTS_SCORED_WEIGHT
        + ROSTER_STRENGTH_WEIGHT

\* round(num / den, 2) as a number of hundredths; a quotient exactly half
\* way between two hundredths goes to the even one.  (power_den is odd for
\* every LATEST_FINISHED_WEEK, 12 * W + 45 tenths, so 100 * num / den is
\* never half way: the floating-point quotient of the source and the exact
\* one round to the same hundredth.)
round2(num, den) ==
    LET q == (100 * num) \div den
        rem == (100 * num) % den
    IN  IF 2 * rem < den THEN q
        ELSE IF 2 * rem > den THEN q + 1
        ELSE IF q % 2 = 0 THEN q ELSE q + 1

calculate_power_rankings_per_team ==
    /\ pc = "calculate_power_rankings_per_team"
    /\ LET keys == ROSTER_TO_TEAM_NAME_MAPPING
           rosters == Range(keys)
           power_rankings == [r \in rosters |->
               <<round2(power_num(main_locals, r), power_den), 100>>]
           power_rankings_ranked ==
               rank_data_keyed_by_roster_id(Items(keys, power_rankings), 1)
       IN  FINAL_RESULTS' =
              [r \in DOMAIN FINAL_RESULTS \cup rosters |->
                  IF r \notin rosters THEN FINAL_RESULTS[r]
                  ELSE [power_rankings |-> power_rankings[r],
                        power_rankings_rankings |-> power_rankings_ranked[r]]
                       @@ FINAL_RESULTS[r]]
    /\ weights_printed' = [wins |-> WIN_WEIGHT_TO_USE,
                           overall_wins |-> OVERALL_WIN_WEIGHT,
                           recent_wins |-> RECENT_WINS_TO_USE,
                           consistency |-> CONSISTENCY_TO_USE,
                           points_per_game |-> POINTS_SCORED_WEIGHT,
                           ros |-> ROSTER_STRENGTH_WEIGHT]
    /\ pc' = "export_to_csv"
    /\ UNCHANGED <<error, config, ROSTER_TO_TEAM_NAME_MAPPING,
                   PER_TEAM_WEEKLY_MATRIX_DATA, weeks_fetched, main_locals,
                   csvfile, helper>>

(***************************************************************************)
(* export_to_csv, lines 301-334: one row per roster, in directory order.   *)
(***************************************************************************)
export_to_csv ==
    /\ pc = "export_to_csv"
    /\ csvfile' = [i \in 1 .. Len(ROSTER_TO_TEAM_NAME_MAPPING) |->
          LET roster_id == ROSTER_TO_TEAM_NAME_MAPPING[i]
              res == FINAL_RESULTS[roster_id]
          IN  [POWER_RANK |-> res.power_rankings_rankings,
               POWER_RANK_VALUE |-> res.power_rankings,
               Member |-> roster_id,
               PPG |-> res.points_per_game,
               PPG_Rank |-> res.points_per_game_rankings,
               Wins |-> res.wins,
               Win_Rank |-> res.wins_rankings,
               Overall_Wins |-> res.overall_wins,
               Overall_Win_Rank |-> res.overall_wins_rankings,
               Recent_Wins |-> res.recent_wins,
               Recent_Wins_Rank |-> res.recent_wins_rankings,
               Consistency_Rating |-> res.consistency,
               Consistency_Rank |-> res.consistency_rankings,
               ROS_Roster_Rank |-> res.ros_rankings]]
    /\ pc' = "done"
    /\ UNCHANGED <<error, config, ROSTER_TO_TEAM_NAME_MAPPING,
                   PER_TEAM_WEEKLY_MATRIX_DATA, weeks_fetched, FINAL_RESULTS,
                   main_locals, weights_printed, helper>>

\* open(...) raises on line 331.
export_to_csv_fails ==
    /\ pc = "export_to_csv"
    /\ Raise("export_to_csv", "OSError")
    /\ UNCHANGED <<config, ROSTER_TO_TEAM_NAME_MAPPING,
                   PER_TEAM_WEEKLY_MATRIX_DATA, weeks_fetched, FINAL_RESULTS,
                   main_locals, weights_printed, csvfile, helper>>

(***************************************************************************)
(* main, lines 73-87.                                                      *)
(***************************************************************************)
Next ==
    \/ populate_roster_to_team_name_mapping
    \/ populate_roster_to_team_name_mapping_fails
    \/ populate_per_roster_data
    \/ populate_per_roster_data_fails
    \/ calculate_points_per_game_and_consistency_rankings
    \/ calculate_wins_and_overall_wins_and_recent_wins_rankings
    \/ get_ros_rankings
    \/ get_ros_rankings_fails
    \/ calculate_power_rankings_per_team
    \/ export_to_csv
    \/ export_to_csv_fails

Spec == Init /\ [][Next]_vars

(***************************************************************************)
(* Direct calls of rank_data_keyed_by_roster_id: any dict of up to         *)
(* MaxRankLen items with distinct keys, in any iteration order, ranked in  *)
(* either sense.                                                           *)
(***************************************************************************)
RankInputs ==
    UNION {{s \in [1 .. n -> RankIds \X {Rat(v) : v \in RankValues}] :
               \A i, j \in 1 .. n : i # j => s[i][1] # s[j][1]} :
           n \in 1 .. MaxRankLen}

InitRank ==
    /\ pc = "rank_data_keyed_by_roster_id"
    /\ error = NoError
    /\ LATEST_FINISHED_WEEK = 1
    /\ RECENT_WEEKS_COUNT = 5
    /\ RECENT_WINS_EARLY_SEASON_WEEK_THRESHOLD = 8
    /\ ROSTER_TO_TEAM_NAME_MAPPING = <<>>
    /\ PER_TEAM_WEEKLY_MATRIX_DATA = EmptyDict
    /\ weeks_fetched = 0
    /\ FINAL_RESULTS = EmptyDict
    /\ main_locals = EmptyDict
    /\ weights_printed = EmptyDict
    /\ csvfile = <<>>
    /\ rank_in \in RankInputs
    /\ rank_out = NoRankCall

call_rank_data_keyed_by_roster_id ==
    /\ pc = "rank_data_keyed_by_roster_id"
    /\ ~rank_out.called
    /\ \E to_reverse \in {0, 1} :
          rank_out' = [called |-> TRUE,
                       to_reverse |-> to_reverse,
                       result |-> rank_data_keyed_by_roster_id(rank_in, to_reverse)]
    /\ UNCHANGED <<pc, error, config, ROSTER_TO_TEAM_NAME_MAPPING,
                   PER_TEAM_WEEKLY_MATRIX_DATA, weeks_fetched, FINAL_RESULTS,
                   main_locals, weights_printed, csvfile, rank_in>>

NextRank == call_rank_data_keyed_by_roster_id

SpecRank == InitRank /\ [][NextRank]_vars

(***************************************************************************)
(* Properties of the ranking helper, under SpecRank.                       *)
(***************************************************************************)
RankInIds == {rank_in[i][1] : i \in 1 .. Len(rank_in)}

\* value a is strictly better than value b under the sense of the call
Better(a, b, to_reverse) ==
    IF to_reverse = 0 THEN RatLess(b, a) ELSE RatLess(a, b)

\* C1: the map the helper returns has exactly the roster ids of its input
\* as keys, whatever the (distinct) ids are.
C1_KeysAreRosterIds ==
    rank_out.called => DOMAIN rank_out.result = RankInIds

\* C2: the rank of every roster of the input is 1 plus the number of
\* rosters whose value is strictly better under the sense of the call, it
\* lies in 1 .. N, and rosters of equal value have equal ranks.
C2_CompetitionRank ==
    rank_out.called =>
        \A i \in 1 .. Len(rank_in) :
            /\ rank_in[i][1] \in DOMAIN rank_out.result
            /\ rank_out.result[rank_in[i][1]] \in 1 .. Len(rank_in)
            /\ rank_out.result[rank_in[i][1]] =
                  1 + Cardinality({j \in 1 .. Len(rank_in) :
                          Better(rank_in[j][2], rank_in[i][2], rank_out.to_reverse)})
            /\ \A j \in 1 .. Len(rank_in) :
                  RatEq(rank_in[i][2], rank_in[j][2]) =>
                      /\ rank_in[j][1] \in DOMAIN rank_out.result
                      /\ rank_out.result[rank_in[j][1]] =
                            rank_out.result[rank_in[i][1]]

(***************************************************************************)
(* Properties of the pipeline, under Spec.                                 *)
(***************************************************************************)
Rosters == Range(ROSTER_TO_TEAM_NAME_MAPPING)

Weeks == 1 .. LATEST_FINISHED_WEEK

\* field f of the results of roster r has been written
Has(r, f) == r \in DOMAIN FINAL_RESULTS /\ f \in DOMAIN FINAL_RESULTS[r]

\* the observation the store holds for roster r at week number w
Obs(r, w) == PER_TEAM_WEEKLY_MATRIX_DATA[r][w]

\* the rosters r met and beat in week w: they share its matchup id and
\* scored fewer points
BeatenOpponents(r, w) ==
    {o \in Rosters \ {r} :
        /\ Obs(o, w).matchup_id = Obs(r, w).matchup_id
        /\ Obs(o, w).points_scored < Obs(r, w).points_scored}

RECURSIVE SumOver(_, _)
SumOver(S, f) ==
    IF S = {} THEN 0
    ELSE LET x == CHOOSE y \in S : TRUE IN f[x] + SumOver(S \ {x}, f)

\* C3: when population has completed, no roster lacks an observation of a
\* processed week (a gap would have ended the run with DataGapError): every
\* roster has exactly LATEST_FINISHED_WEEK observations, and the one at
\* index i is that of week i + 1.
C3_NoGapAfterPopulation ==
    weeks_fetched = LATEST_FINISHED_WEEK =>
        \A r \in Rosters :
            /\ r \in DOMAIN PER_TEAM_WEEKLY_MATRIX_DATA
            /\ Len(PER_TEAM_WEEKLY_MATRIX_DATA[r]) = LATEST_FINISHED_WEEK
            /\ \A w \in Weeks : Obs(r, w).week = w

\* C4: the record calculation credits no roster with more than one
\* head-to-head win in a week: the wins of a roster are at most the number
\* of weeks in which it beat a roster that shares its matchup id (several
\* rosters sharing it are reported as AmbiguousOpponentError, not counted).
C4_OneWinPerWeek ==
    \A r \in Rosters :
        Has(r, "wins") =>
            FINAL_RESULTS[r].wins <=
                Cardinality({w \in Weeks : BeatenOpponents(r, w) # {}})

CalculationStages ==
    {"calculate_points_per_game_and_consistency_rankings",
     "calculate_wins_and_overall_wins_and_recent_wins_rankings",
     "get_ros_rankings",
     "calculate_power_rankings_per_team",
     "export_to_csv"}

ResultFields ==
    {"points_per_game", "points_per_game_rankings", "consistency",
     "consistency_rankings", "wins", "wins_rankings", "overall_wins",
     "overall_wins_rankings", "recent_wins", "recent_wins_rankings",
     "ros_rankings", "power_rankings", "power_rankings_rankings"}

\* C5: a run that a failure ends has written no report; a report is written
\* only by a run no stage of which failed, with every result of every
\* roster computed; and no calculation has begun, or left a result, before
\* all LATEST_FINISHED_WEEK weeks were fetched.
C5_NoPartialReport ==
    /\ pc = "aborted" => csvfile = <<>> /\ error # NoError
    /\ csvfile # <<>> =>
          /\ pc = "done"
          /\ error = NoError
          /\ Len(csvfile) = Len(ROSTER_TO_TEAM_NAME_MAPPING)
          /\ \A r \in Rosters :
                r \in DOMAIN FINAL_RESULTS
                    /\ DOMAIN FINAL_RESULTS[r] = ResultFields
    /\ (\/ pc \in CalculationStages \cup {"done"}
        \/ error.stage \in CalculationStages
        \/ FINAL_RESULTS # EmptyDict
        \/ main_locals # EmptyDict) =>
          weeks_fetched = LATEST_FINISHED_WEEK

\* a run the manual input ended, after the two calculators had written
\* their results
C5_Witness ==
    /\ pc = "aborted"
    /\ error.stage = "get_ros_rankings"
    /\ \A r \in Rosters : Has(r, "wins") /\ Has(r, "consistency")
    /\ LATEST_FINISHED_WEEK = 2
    /\ csvfile = <<>>

\* C6: after the record calculation, wins <= overall wins and recent wins
\* <= wins for every roster.
C6_WinsOrdered ==
    \A r \in Rosters :
        Has(r, "wins") =>
            /\ FINAL_RESULTS[r].wins <= FINAL_RESULTS[r].overall_wins
            /\ FINAL_RESULTS[r].recent_wins <= FINAL_RESULTS[r].wins

\* a roster with a win outside the recent window, and more overall wins
\* than wins
C6_Witness ==
    \E r \in Rosters :
        /\ Has(r, "wins")
        /\ FINAL_RESULTS[r].recent_wins < FINAL_RESULTS[r].wins
        /\ FINAL_RESULTS[r].wins < FINAL_RESULTS[r].overall_wins

ScoringDone == "consistency_rankings" \in DOMAIN main_locals

\* C7: when LATEST_FINISHED_WEEK is below the consistency threshold, every
\* consistency recorded is 0 and every consistency rank recorded is 1, and
\* the scoring calculation returns with both recorded for every roster.
C7_EarlyConsistencyZero ==
    LATEST_FINISHED_WEEK < CONSISTENCY_EARLY_SEASON_WEEK_THRESHOLD =>
        /\ \A r \in Rosters :
              /\ Has(r, "consistency") => FINAL_RESULTS[r].consistency[1] = 0
              /\ Has(r, "consistency_rankings") =>
                    FINAL_RESULTS[r].consistency_rankings = 1
        /\ ScoringDone =>
              \A r \in Rosters :
                  /\ Has(r, "consistency") /\ Has(r, "consistency_rankings")
                  /\ r \in DOMAIN main_locals.consistency_rankings
                  /\ main_locals.consistency_rankings[r] = 1

\* two weeks, below the threshold, in which the points of a roster vary
\* (its standard deviation is not 0) and the rosters differ in their means
C7_Witness ==
    /\ ScoringDone
    /\ LATEST_FINISHED_WEEK = 2
    /\ \E r \in Rosters : Obs(r, 1).points_scored # Obs(r, 2).points_scored
    /\ \E r, o \in Rosters :
          FINAL_RESULTS[r].points_per_game_rankings
              # FINAL_RESULTS[o].points_per_game_rankings
    /\ \A r \in Rosters : FINAL_RESULTS[r].consistency_rankings = 1

\* the weight of a factor: its early-season value exactly when
\* LATEST_FINISHED_WEEK is below the threshold of the factor
PhaseWeight(threshold, early, normal) ==
    IF LATEST_FINISHED_WEEK < threshold THEN early ELSE normal

\* the numerator of the composite score of roster r, in tenths
CompositeNumerator(r) ==
    LET res == FINAL_RESULTS[r]
    IN    res.wins_rankings
              * PhaseWeight(WIN_EARLY_SEASON_WEEK_THRESHOLD,
                            WIN_WEIGHT_EARLY_SEASON, WIN_WEIGHT)
        + res.overall_wins_rankings * OVERALL_WIN_WEIGHT
        + res.recent_wins_rankings
              * PhaseWeight(RECENT_WINS_EARLY_SEASON_WEEK_THRESHOLD,
                            RECENT_WINS_WEIGHT_EARLY_SEASON, RECENT_WINS_WEIGHT)
        + res.points_per_game_rankings * POINTS_SCORED_WEIGHT
        + res.consistency_rankings
              * PhaseWeight(CONSISTENCY_EARLY_SEASON_WEEK_THRESHOLD,
                            CONSISTENCY_WEIGHT_EARLY_SEASON, CONSISTENCY_WEIGHT)
        + res.ros_rankings * ROSTER_STRENGTH_WEIGHT

\* the denominator of every composite score, in tenths
CompositeDenominator ==
    WIN_WEIGHT_EARLY_SEASON + OVERALL_WIN_WEIGHT + POINTS_SCORED_WEIGHT
        + ROSTER_STRENGTH_WEIGHT

Abs(x) == IF x < 0 THEN -x ELSE x

\* C8: each of the win, recent-win and consistency weights the compositor
\* uses is the early-season value when LATEST_FINISHED_WEEK is below the
\* threshold of the factor and the normal value otherwise, and every score
\* is that of the numerator with these weights; with the win threshold 3,
\* two weeks use the early-season win weight (1.2 * 2) and three weeks the
\* normal one (3).
C8_PhaseWeights ==
    weights_printed # EmptyDict =>
        /\ \A r \in Rosters :
              2 * Abs(FINAL_RESULTS[r].power_rankings[1] * power_den
                      - 100 * CompositeNumerator(r)) <= power_den
        /\ weights_printed.wins =
              PhaseWeight(WIN_EARLY_SEASON_WEEK_THRESHOLD,
                          WIN_WEIGHT_EARLY_SEASON, WIN_WEIGHT)
        /\ weights_printed.recent_wins =
              PhaseWeight(RECENT_WINS_EARLY_SEASON_WEEK_THRESHOLD,
                          RECENT_WINS_WEIGHT_EARLY_SEASON, RECENT_WINS_WEIGHT)
        /\ weights_printed.consistency =
              PhaseWeight(CONSISTENCY_EARLY_SEASON_WEEK_THRESHOLD,
                          CONSISTENCY_WEIGHT_EARLY_SEASON, CONSISTENCY_WEIGHT)
        /\ WIN_EARLY_SEASON_WEEK_THRESHOLD = 3
        /\ LATEST_FINISHED_WEEK = 2 => weights_printed.wins = 24
        /\ LATEST_FINISHED_WEEK = 3 => weights_printed.wins = 30

\* three weeks with the recent-wins threshold 2: all three factors have
\* reached their thresholds
C8_Witness ==
    /\ weights_printed # EmptyDict
    /\ LATEST_FINISHED_WEEK = 3
    /\ RECENT_WINS_EARLY_SEASON_WEEK_THRESHOLD = 2
    /\ weights_printed.wins = WIN_WEIGHT
    /\ weights_printed.recent_wins = RECENT_WINS_WEIGHT
    /\ weights_printed.consistency = CONSISTENCY_WEIGHT

\* the weeks of the recent window: the last RECENT_WEEKS_COUNT completed
\* weeks, none when fewer weeks than that have completed
RecentWeeks ==
    IF LATEST_FINISHED_WEEK - RECENT_WEEKS_COUNT >= 0
    THEN LATEST_FINISHED_WEEK - RECENT_WEEKS_COUNT + 1 .. LATEST_FINISHED_WEEK
    ELSE {}

\* C9: the recent wins of a roster are its head-to-head wins in the last
\* RECENT_WEEKS_COUNT completed weeks; when fewer weeks have completed they
\* are 0 and every roster has recent-win rank 1; when RECENT_WEEKS_COUNT is
\* LATEST_FINISHED_WEEK they are the wins.
C9_RecentWins ==
    \A r \in Rosters :
        Has(r, "recent_wins") =>
            /\ FINAL_RESULTS[r].recent_wins =
                  SumOver(RecentWeeks,
                          [w \in RecentWeeks |-> Cardinality(BeatenOpponents(r, w))])
            /\ LATEST_FINISHED_WEEK - RECENT_WEEKS_COUNT < 0 =>
                  /\ FINAL_RESULTS[r].recent_wins = 0
                  /\ FINAL_RESULTS[r].recent_wins_rankings = 1
            /\ RECENT_WEEKS_COUNT = LATEST_FINISHED_WEEK =>
                  FINAL_RESULTS[r].recent_wins = FINAL_RESULTS[r].wins

\* three weeks and a window of two: a roster that won in week 1, outside
\* the window, and in week 2, the first week of the window
C9_Witness ==
    /\ LATEST_FINISHED_WEEK = 3
    /\ RECENT_WEEKS_COUNT = 2
    /\ \E r \in Rosters :
          /\ Has(r, "recent_wins")
          /\ BeatenOpponents(r, 1) # {}
          /\ BeatenOpponents(r, 2) # {}
          /\ BeatenOpponents(r, 3) = {}
          /\ FINAL_RESULTS[r].recent_wins = 1
          /\ FINAL_RESULTS[r].wins = 2

====
